---- MODULE Spec2Model ----
(***************************************************************************)
(* ZeroSecondChess.py: a premove-only match between two UCI engines.       *)
(*                                                                         *)
(* The match loop premove_match, choose_premove and safe_push are          *)
(* translated line by line.  The rules of chess live in the python-chess   *)
(* library, which the program only calls; they are modelled by a small     *)
(* board game with the same interface (legal_moves, push, peek,            *)
(* is_game_over, result): sliding pieces on one file, captures by          *)
(* displacement, a side to move, a halfmove clock with a claimable draw.   *)
(* The engines are external processes: every answer to engine.play is a    *)
(* nondeterministic choice among every move of the board, "no move" and a  *)
(* raised exception.                                                       *)
(***************************************************************************)
EXTENDS Integers, Sequences, FiniteSets, TLC

VARIABLES
    pc,             \* position of premove_match (the line about to run)
    board,          \* chess.Board: placement, turn, halfmove_clock, move_stack
    game,           \* chess.pgn.Game: the Result header and the mainline moves
    moves_played,   \* local moves_played
    premove_white,  \* local premove_white (a UCI string, None is <<>>)
    premove_black,  \* local premove_black
    fb,             \* local fb
    white_eng,      \* the White engine process: "unopened", "open", "closed"
    black_eng,      \* the Black engine process
    MAX_MOVES,      \* the move-count ceiling, fixed at start
    outcome,        \* how premove_match left: "running", "returned", "raised"
    asked,          \* engine.play calls of the current cycle: <<engine, depth, move stack>>
    last_play,      \* what the latest engine.play did: "move", "nomove", "error"
    returned,       \* what the latest choose_premove returned
    result_writes,  \* number of assignments to game.headers["Result"]
    printed,        \* the "[error] ... Resigns." line printed: "", "White", "Black"
    pgn_file,       \* the content of PGN_FILE: "absent", or the game printed into it
    file_writes     \* number of times PGN_FILE was opened for writing

vars == << pc, board, game, moves_played, premove_white, premove_black, fb,
           white_eng, black_eng, MAX_MOVES, outcome, asked, last_play, returned,
           result_writes, printed, pgn_file, file_writes >>

-----------------------------------------------------------------------------
(* Bounds and program constants *)

MaxCeiling == 5         \* MAX_MOVES ranges over 1..MaxCeiling
DrawClock == 3          \* halfmoves without a capture after which a draw can be claimed
Reach == 2              \* how far a piece slides in one move

PREMOVE_DEPTH == 6
FALLBACK_DEPTH == 1

None == << >>

-----------------------------------------------------------------------------
(* The position / legality collaborator (python-chess) *)

StartPlacement == << "W", "W", "B", "B" >>

Squares == DOMAIN StartPlacement

Other(side) == IF side = "W" THEN "B" ELSE "W"

\* chess.Board(): the starting position, White to move, empty move stack
NewBoard ==
    [ sq |-> StartPlacement, turn |-> "W", halfmove_clock |-> 0, move_stack |-> << >> ]

\* every UCI string an engine can print: a from-square and a to-square
Moves == { m \in Squares \X Squares : m[1] # m[2] }

Between(a, b) == { s \in Squares : (a < s /\ s < b) \/ (b < s /\ s < a) }

Dist(a, b) == IF a < b THEN b - a ELSE a - b

\* board.legal_moves
legal_moves(b) ==
    { m \in Moves :
        /\ b.sq[m[1]] = b.turn
        /\ b.sq[m[2]] # b.turn
        /\ Dist(m[1], m[2]) <= Reach
        /\ \A s \in Between(m[1], m[2]) : b.sq[s] = "." }

\* board.push(move)
push(b, m) ==
    [ sq |-> [ b.sq EXCEPT ![m[1]] = ".", ![m[2]] = b.turn ],
      turn |-> Other(b.turn),
      halfmove_clock |-> IF b.sq[m[2]] = "." THEN b.halfmove_clock + 1 ELSE 0,
      move_stack |-> Append(b.move_stack, m) ]

\* board.peek()
peek(b) == b.move_stack[Len(b.move_stack)]

HasPieces(b, side) == \E s \in Squares : b.sq[s] = side

\* board.result(claim_draw=True)
result(b) ==
    IF ~HasPieces(b, b.turn) THEN (IF b.turn = "W" THEN "0-1" ELSE "1-0")
    ELSE IF legal_moves(b) = {} THEN "1/2-1/2"
    ELSE IF b.halfmove_clock >= DrawClock THEN "1/2-1/2"
    ELSE "*"

\* board.is_game_over(claim_draw=True)
is_game_over(b) == result(b) # "*"

-----------------------------------------------------------------------------
(* choose_premove and safe_push *)

\* what engine.play can do: return a move, return no move, raise an exception
Answers ==
    { [ kind |-> "move", move |-> m ] : m \in Moves }
        \cup { [ kind |-> "nomove", move |-> None ], [ kind |-> "error", move |-> None ] }

\* choose_premove without its try/except: the engine's exception leaves it
choose_premove_uncaught(answer) ==
    IF answer.kind = "error" THEN [ value |-> None, raised |-> TRUE ]
    ELSE IF answer.move = None THEN [ value |-> None, raised |-> FALSE ]
    ELSE [ value |-> answer.move, raised |-> FALSE ]

\* choose_premove(engine, board, depth), given what engine.play did: the value
\* returned, and whether an exception leaves the function
choose_premove(answer) ==
    IF answer.kind = "error" THEN [ value |-> None, raised |-> FALSE ]
    ELSE IF answer.move = None THEN [ value |-> None, raised |-> FALSE ]
    ELSE [ value |-> answer.move, raised |-> FALSE ]

\* safe_push without the legal_moves test: every present move is pushed
safe_push_unchecked(b, move_uci) ==
    IF move_uci = None THEN [ board |-> b, ok |-> FALSE ]
    ELSE [ board |-> push(b, move_uci), ok |-> TRUE ]

\* safe_push(board, move_uci): the board afterwards and the value returned
safe_push(b, move_uci) ==
    IF move_uci = None THEN [ board |-> b, ok |-> FALSE ]
    ELSE IF move_uci \in legal_moves(b) THEN [ board |-> push(b, move_uci), ok |-> TRUE ]
    ELSE [ board |-> b, ok |-> FALSE ]

-----------------------------------------------------------------------------
(* premove_match *)

Init ==
    /\ pc = "start_white"
    /\ board = NewBoard
    /\ game = [ Result |-> "*", moves |-> << >> ]
    /\ moves_played = 0
    /\ premove_white = None
    /\ premove_black = None
    /\ fb = None
    /\ white_eng = "unopened"
    /\ black_eng = "unopened"
    /\ MAX_MOVES \in 1..MaxCeiling
    /\ outcome = "running"
    /\ asked = << >>
    /\ last_play = "none"
    /\ returned = None
    /\ result_writes = 0
    /\ printed = ""
    /\ pgn_file = "absent"
    /\ file_writes = 0

Output == << pgn_file, file_writes >>
Locals == << board, game, moves_played, premove_white, premove_black, fb >>
Ghosts == << asked, last_play, returned, result_writes, printed >>

\* line 58: with popen_uci(white_path) as white_eng
StartWhite ==
    /\ pc = "start_white"
    /\ \E started \in BOOLEAN :
        IF started
        THEN /\ white_eng' = "open"
             /\ pc' = "start_black"
             /\ outcome' = outcome
        ELSE /\ white_eng' = white_eng
             /\ pc' = "done"
             /\ outcome' = "raised"
    /\ UNCHANGED << Locals, Ghosts, black_eng, MAX_MOVES, Output >>

\* the second engine started outside any with block of the first
StartBlackUnscoped ==
    /\ pc = "start_black"
    /\ \E started \in BOOLEAN :
        IF started
        THEN /\ black_eng' = "open"
             /\ pc' = "loop"
             /\ outcome' = outcome
        ELSE /\ black_eng' = black_eng
             /\ pc' = "done"
             /\ outcome' = "raised"
    /\ UNCHANGED << Locals, Ghosts, white_eng, MAX_MOVES, Output >>

\* line 59: popen_uci(black_path) as black_eng
StartBlack ==
    /\ pc = "start_black"
    /\ \E started \in BOOLEAN :
        IF started
        THEN /\ black_eng' = "open"
             /\ pc' = "loop"
             /\ outcome' = outcome
        ELSE /\ black_eng' = black_eng
             /\ pc' = "exit_white"
             /\ outcome' = "raised"
    /\ UNCHANGED << Locals, Ghosts, white_eng, MAX_MOVES, Output >>

\* leaving the with block: black_eng.__exit__
ExitBlack ==
    /\ pc = "exit_black"
    /\ black_eng' = "closed"
    /\ pc' = "exit_white"
    /\ UNCHANGED << Locals, Ghosts, white_eng, MAX_MOVES, Output, outcome >>

\* leaving the with block: white_eng.__exit__
ExitWhite ==
    /\ pc = "exit_white"
    /\ white_eng' = "closed"
    /\ pc' = "done"
    /\ UNCHANGED << Locals, Ghosts, black_eng, MAX_MOVES, Output, outcome >>

\* the while condition without the move-count ceiling
LoopConditionNoCeiling == ~is_game_over(board)

\* line 61: the while condition
LoopCondition == ~is_game_over(board) /\ moves_played < MAX_MOVES

\* line 61: while ...
LoopTest ==
    /\ pc = "loop"
    /\ IF LoopCondition
       THEN pc' = "premove_white" /\ asked' = << >>
       ELSE pc' = "result" /\ asked' = asked
    /\ UNCHANGED << Locals, last_play, returned, result_writes, printed, white_eng,
                    black_eng, MAX_MOVES, Output, outcome >>

\* the engine handed a copy of the board taken at the start of the cycle
QueryStaleCopy(eng, depth) ==
    << eng, depth, IF asked = << >> THEN board.move_stack ELSE asked[1][3] >>

\* engine.play(board, Limit(depth=depth)) as the engine sees it
Query(eng, depth) == << eng, depth, board.move_stack >>

\* an exception leaves premove_match through the with block
Propagate ==
    /\ pc' = "exit_black"
    /\ outcome' = "raised"

\* line 63: premove_white = choose_premove(white_eng, board, PREMOVE_DEPTH)
PremoveWhite ==
    /\ pc = "premove_white"
    /\ \E answer \in Answers :
        LET r == choose_premove(answer) IN
        /\ last_play' = answer.kind
        /\ returned' = r.value
        /\ IF r.raised
           THEN Propagate /\ premove_white' = premove_white
           ELSE /\ premove_white' = r.value
                /\ pc' = "premove_black"
                /\ outcome' = outcome
    /\ asked' = Append(asked, Query("white_eng", PREMOVE_DEPTH))
    /\ UNCHANGED << board, game, moves_played, premove_black, fb, result_writes,
                    printed, white_eng, black_eng, MAX_MOVES, Output >>

\* Black's engine answer stored in premove_white: premove_black keeps the
\* candidate of the cycle before
PremoveBlackMisassigned ==
    /\ pc = "premove_black"
    /\ \E answer \in Answers :
        LET r == choose_premove(answer) IN
        /\ last_play' = answer.kind
        /\ returned' = r.value
        /\ IF r.raised
           THEN Propagate /\ premove_white' = premove_white
           ELSE /\ premove_white' = r.value
                /\ pc' = "white_push"
                /\ outcome' = outcome
    /\ asked' = Append(asked, Query("black_eng", PREMOVE_DEPTH))
    /\ UNCHANGED << board, game, moves_played, premove_black, fb, result_writes,
                    printed, white_eng, black_eng, MAX_MOVES, Output >>

\* line 64: premove_black = choose_premove(black_eng, board, PREMOVE_DEPTH)
PremoveBlack ==
    /\ pc = "premove_black"
    /\ \E answer \in Answers :
        LET r == choose_premove(answer) IN
        /\ last_play' = answer.kind
        /\ returned' = r.value
        /\ IF r.raised
           THEN Propagate /\ premove_black' = premove_black
           ELSE /\ premove_black' = r.value
                /\ pc' = "white_push"
                /\ outcome' = outcome
    /\ asked' = Append(asked, Query("black_eng", PREMOVE_DEPTH))
    /\ UNCHANGED << board, game, moves_played, premove_white, fb, result_writes,
                    printed, white_eng, black_eng, MAX_MOVES, Output >>

\* line 67: if not safe_push(board, premove_white)
WhitePush ==
    /\ pc = "white_push"
    /\ LET r == safe_push(board, premove_white) IN
        /\ board' = r.board
        /\ pc' = IF r.ok THEN "white_record" ELSE "white_fb"
    /\ UNCHANGED << game, moves_played, premove_white, premove_black, fb, Ghosts,
                    white_eng, black_eng, MAX_MOVES, Output, outcome >>

\* line 68: fb = choose_premove(white_eng, board, FALLBACK_DEPTH)
WhiteFallback ==
    /\ pc = "white_fb"
    /\ \E answer \in Answers :
        LET r == choose_premove(answer) IN
        /\ last_play' = answer.kind
        /\ returned' = r.value
        /\ IF r.raised
           THEN Propagate /\ fb' = fb
           ELSE /\ fb' = r.value
                /\ pc' = "white_fb_push"
                /\ outcome' = outcome
    /\ asked' = Append(asked, Query("white_eng", FALLBACK_DEPTH))
    /\ UNCHANGED << board, game, moves_played, premove_white, premove_black,
                    result_writes, printed, white_eng, black_eng, MAX_MOVES, Output >>

\* White gives up although the fallback was applied
WhiteFallbackPushGivesUp ==
    /\ pc = "white_fb_push"
    /\ LET r == safe_push(board, fb) IN
        /\ board' = r.board
        /\ pc' = "white_resign"
    /\ UNCHANGED << game, moves_played, premove_white, premove_black, fb, Ghosts,
                    white_eng, black_eng, MAX_MOVES, Output, outcome >>

\* line 69: if not safe_push(board, fb)
WhiteFallbackPush ==
    /\ pc = "white_fb_push"
    /\ LET r == safe_push(board, fb) IN
        /\ board' = r.board
        /\ pc' = IF r.ok THEN "white_record" ELSE "white_resign"
    /\ UNCHANGED << game, moves_played, premove_white, premove_black, fb, Ghosts,
                    white_eng, black_eng, MAX_MOVES, Output, outcome >>

\* White's resignation leaving the loop with break instead of return
WhiteResignBreaks ==
    /\ pc = "white_resign"
    /\ printed' = "White"
    /\ game' = [ game EXCEPT !.Result = "0-1" ]
    /\ result_writes' = result_writes + 1
    /\ outcome' = outcome
    /\ pc' = "result"
    /\ UNCHANGED << board, moves_played, premove_white, premove_black, fb, asked,
                    last_play, returned, white_eng, black_eng, MAX_MOVES, Output >>

\* lines 70-72: White resigns
WhiteResign ==
    /\ pc = "white_resign"
    /\ printed' = "White"
    /\ game' = [ game EXCEPT !.Result = "0-1" ]
    /\ result_writes' = result_writes + 1
    /\ outcome' = "returned"
    /\ pc' = "exit_black"
    /\ UNCHANGED << board, moves_played, premove_white, premove_black, fb, asked,
                    last_play, returned, white_eng, black_eng, MAX_MOVES, Output >>

\* the game saved to PGN_FILE move by move, inside the loop
WhiteRecordSavesPGN ==
    /\ pc = "white_record"
    /\ pgn_file' = game
    /\ file_writes' = file_writes + 1
    /\ game' = [ game EXCEPT !.moves = Append(@, peek(board)) ]
    /\ moves_played' = moves_played + 1
    /\ pc' = IF is_game_over(board) THEN "result" ELSE "black_push"
    /\ UNCHANGED << board, premove_white, premove_black, fb, Ghosts,
                    white_eng, black_eng, MAX_MOVES, outcome >>

\* White's move recorded without the game-over test that breaks the loop
WhiteRecordNoBreak ==
    /\ pc = "white_record"
    /\ game' = [ game EXCEPT !.moves = Append(@, peek(board)) ]
    /\ moves_played' = moves_played + 1
    /\ pc' = "black_push"
    /\ UNCHANGED << board, premove_white, premove_black, fb, Ghosts,
                    white_eng, black_eng, MAX_MOVES, Output, outcome >>

\* the game-over break taken before White's move is recorded
WhiteRecordAfterBreak ==
    /\ pc = "white_record"
    /\ IF is_game_over(board)
       THEN /\ game' = game
            /\ moves_played' = moves_played
            /\ pc' = "result"
       ELSE /\ game' = [ game EXCEPT !.moves = Append(@, peek(board)) ]
            /\ moves_played' = moves_played + 1
            /\ pc' = "black_push"
    /\ UNCHANGED << board, premove_white, premove_black, fb, Ghosts,
                    white_eng, black_eng, MAX_MOVES, Output, outcome >>

\* lines 74-77: record White's move, count it, break if the game is over
WhiteRecord ==
    /\ pc = "white_record"
    /\ game' = [ game EXCEPT !.moves = Append(@, peek(board)) ]
    /\ moves_played' = moves_played + 1
    /\ pc' = IF is_game_over(board) THEN "result" ELSE "black_push"
    /\ UNCHANGED << board, premove_white, premove_black, fb, Ghosts,
                    white_eng, black_eng, MAX_MOVES, Output, outcome >>

\* Black's premove pushed without looking at the board as it is now
BlackPushUnvalidated ==
    /\ pc = "black_push"
    /\ IF premove_black # None
       THEN board' = push(board, premove_black) /\ pc' = "black_record"
       ELSE board' = board /\ pc' = "black_fb"
    /\ UNCHANGED << game, moves_played, premove_white, premove_black, fb, Ghosts,
                    white_eng, black_eng, MAX_MOVES, Output, outcome >>

\* lines 80-82: Black's premove, validated against the board as it is now
BlackPush ==
    /\ pc = "black_push"
    /\ IF premove_black # None /\ premove_black \in legal_moves(board)
       THEN board' = push(board, premove_black) /\ pc' = "black_record"
       ELSE board' = board /\ pc' = "black_fb"
    /\ UNCHANGED << game, moves_played, premove_white, premove_black, fb, Ghosts,
                    white_eng, black_eng, MAX_MOVES, Output, outcome >>

\* Black's fallback asked of White's engine
BlackFallbackAsksWhite ==
    /\ pc = "black_fb"
    /\ \E answer \in Answers :
        LET r == choose_premove(answer) IN
        /\ last_play' = answer.kind
        /\ returned' = r.value
        /\ IF r.raised
           THEN Propagate /\ fb' = fb
           ELSE /\ fb' = r.value
                /\ pc' = "black_fb_push"
                /\ outcome' = outcome
    /\ asked' = Append(asked, Query("white_eng", FALLBACK_DEPTH))
    /\ UNCHANGED << board, game, moves_played, premove_white, premove_black,
                    result_writes, printed, white_eng, black_eng, MAX_MOVES, Output >>

\* line 83: fb = choose_premove(black_eng, board, FALLBACK_DEPTH)
BlackFallback ==
    /\ pc = "black_fb"
    /\ \E answer \in Answers :
        LET r == choose_premove(answer) IN
        /\ last_play' = answer.kind
        /\ returned' = r.value
        /\ IF r.raised
           THEN Propagate /\ fb' = fb
           ELSE /\ fb' = r.value
                /\ pc' = "black_fb_push"
                /\ outcome' = outcome
    /\ asked' = Append(asked, Query("black_eng", FALLBACK_DEPTH))
    /\ UNCHANGED << board, game, moves_played, premove_white, premove_black,
                    result_writes, printed, white_eng, black_eng, MAX_MOVES, Output >>

\* Black passes, with continue, when its fallback fails
BlackFallbackPushPasses ==
    /\ pc = "black_fb_push"
    /\ LET r == safe_push(board, fb) IN
        /\ board' = r.board
        /\ pc' = IF r.ok THEN "black_record" ELSE "loop"
    /\ UNCHANGED << game, moves_played, premove_white, premove_black, fb, Ghosts,
                    white_eng, black_eng, MAX_MOVES, Output, outcome >>

\* line 84: if not safe_push(board, fb)
BlackFallbackPush ==
    /\ pc = "black_fb_push"
    /\ LET r == safe_push(board, fb) IN
        /\ board' = r.board
        /\ pc' = IF r.ok THEN "black_record" ELSE "black_resign"
    /\ UNCHANGED << game, moves_played, premove_white, premove_black, fb, Ghosts,
                    white_eng, black_eng, MAX_MOVES, Output, outcome >>

\* Black's resignation credited to the wrong side
BlackResignSwapped ==
    /\ pc = "black_resign"
    /\ printed' = "Black"
    /\ game' = [ game EXCEPT !.Result = "0-1" ]
    /\ result_writes' = result_writes + 1
    /\ outcome' = "returned"
    /\ pc' = "exit_black"
    /\ UNCHANGED << board, moves_played, premove_white, premove_black, fb, asked,
                    last_play, returned, white_eng, black_eng, MAX_MOVES, Output >>

\* lines 85-87: Black resigns
BlackResign ==
    /\ pc = "black_resign"
    /\ printed' = "Black"
    /\ game' = [ game EXCEPT !.Result = "1-0" ]
    /\ result_writes' = result_writes + 1
    /\ outcome' = "returned"
    /\ pc' = "exit_black"
    /\ UNCHANGED << board, moves_played, premove_white, premove_black, fb, asked,
                    last_play, returned, white_eng, black_eng, MAX_MOVES, Output >>

\* the record extended with Black's premove instead of board.peek()
BlackRecordsPremove ==
    /\ pc = "black_record"
    /\ game' = [ game EXCEPT !.moves = Append(@, premove_black) ]
    /\ moves_played' = moves_played + 1
    /\ pc' = "loop"
    /\ UNCHANGED << board, premove_white, premove_black, fb, Ghosts,
                    white_eng, black_eng, MAX_MOVES, Output, outcome >>

\* Black's move recorded but not counted
BlackRecordUncounted ==
    /\ pc = "black_record"
    /\ game' = [ game EXCEPT !.moves = Append(@, peek(board)) ]
    /\ moves_played' = moves_played
    /\ pc' = "loop"
    /\ UNCHANGED << board, premove_white, premove_black, fb, Ghosts,
                    white_eng, black_eng, MAX_MOVES, Output, outcome >>

BlackRecord ==
    /\ pc = "black_record"
    /\ game' = [ game EXCEPT !.moves = Append(@, peek(board)) ]
    /\ moves_played' = moves_played + 1
    /\ pc' = "loop"
    /\ UNCHANGED << board, premove_white, premove_black, fb, Ghosts,
                    white_eng, black_eng, MAX_MOVES, Output, outcome >>

\* the Result read without draw claims: board.result()
FinalResultNoClaim ==
    /\ pc = "result"
    /\ printed' = printed
    /\ game' = [ game EXCEPT !.Result =
                    IF result(board) = "1/2-1/2" /\ legal_moves(board) # {}
                    THEN "*" ELSE result(board) ]
    /\ result_writes' = result_writes + 1
    /\ outcome' = "returned"
    /\ pc' = "exit_black"
    /\ UNCHANGED << board, moves_played, premove_white, premove_black, fb, asked,
                    last_play, returned, white_eng, black_eng, MAX_MOVES, Output >>

\* lines 92-93: the loop is left: the Result is the board's own
FinalResult ==
    /\ pc = "result"
    /\ printed' = printed
    /\ game' = [ game EXCEPT !.Result = result(board) ]
    /\ result_writes' = result_writes + 1
    /\ outcome' = "returned"
    /\ pc' = "exit_black"
    /\ UNCHANGED << board, moves_played, premove_white, premove_black, fb, asked,
                    last_play, returned, white_eng, black_eng, MAX_MOVES, Output >>

\* lines 98-106 of __main__: premove_match has returned the game; PGN_FILE is
\* opened with mode "w" and the game is printed into it
SavePGN ==
    /\ pc = "done"
    /\ outcome = "returned"
    /\ pgn_file' = game
    /\ file_writes' = file_writes + 1
    /\ pc' = "saved"
    /\ UNCHANGED << Locals, Ghosts, white_eng, black_eng, MAX_MOVES, outcome >>

Next ==
    \/ StartWhite
    \/ StartBlack
    \/ LoopTest
    \/ PremoveWhite
    \/ PremoveBlack
    \/ WhitePush
    \/ WhiteFallback
    \/ WhiteFallbackPush
    \/ WhiteResign
    \/ WhiteRecord
    \/ BlackPush
    \/ BlackFallback
    \/ BlackFallbackPush
    \/ BlackResign
    \/ BlackRecord
    \/ FinalResult
    \/ ExitBlack
    \/ ExitWhite
    \/ SavePGN

Spec == Init /\ [][Next]_vars

\* every step of the match returns: each engine answers, each call completes
FairSpec == Spec /\ WF_vars(Next)

-----------------------------------------------------------------------------
(* Properties *)

\* Legal-Apply of candidate c on board b would succeed
Applies(b, c) == c # None /\ c \in legal_moves(b)

Last(seq) == seq[Len(seq)]

Finished == pc = "done" /\ outcome = "returned"

\* C1: once a side has resigned, the Result header credits the other side,
\* and it still does when the match has ended: "0-1" after White's
\* resignation, "1-0" after Black's.
C1_ResignationCreditsOpponent ==
    /\ printed = "White" => game.Result = "0-1"
    /\ printed = "Black" => game.Result = "1-0"

\* Black has resigned in the second cycle, in a position the board itself
\* does not score for White, and the match has ended.
C1_Witness ==
    /\ Finished
    /\ printed = "Black"
    /\ Len(board.move_stack) = 3
    /\ result(board) = "*"
    /\ game.Result = "1-0"

\* C2: a side resigns exactly when its premove and its fallback both fail
\* Legal-Apply on the board as it is; from then on no move is applied, nothing
\* is appended to the record, no engine is asked, and no error leaves the match.
C2_ResignIffBothFail ==
    /\ [][ /\ pc' = "white_resign" <=>
                /\ pc = "white_fb_push"
                /\ ~Applies(board, premove_white)
                /\ ~Applies(board, fb)
           /\ pc' = "black_resign" <=>
                /\ pc = "black_fb_push"
                /\ ~Applies(board, premove_black)
                /\ ~Applies(board, fb)
           /\ pc = "white_fb_push" => ~Applies(board, premove_white)
           /\ pc = "black_fb_push" => ~Applies(board, premove_black)
           /\ (pc \in { "white_resign", "black_resign" } \/ printed # "") =>
                /\ board' = board
                /\ game'.moves = game.moves
                /\ asked' = asked
                /\ outcome' # "raised"
                /\ pc' \in { "exit_black", "exit_white", "done", "saved" } ]_vars
    /\ [](printed = "White" =>
            ~Applies(board, premove_white) /\ ~Applies(board, fb))
    /\ [](printed = "Black" =>
            ~Applies(board, premove_black) /\ ~Applies(board, fb))

\* White has resigned after both engines returned no move for it, and the
\* match has ended without an error.
C2_Witness ==
    /\ Finished
    /\ printed = "White"
    /\ premove_white = None
    /\ fb = None
    /\ Len(asked) = 3
    /\ Len(game.moves) = 2

\* C3: Black's premove is applied only if it is legal on the board as White's
\* move left it; otherwise the board is untouched and the next step asks
\* Black's engine for a fallback on that same board.
C3_BlackPremoveRevalidated ==
    [][ /\ pc = "black_push" =>
            \/ /\ Applies(board, premove_black)
               /\ board' = push(board, premove_black)
               /\ pc' = "black_record"
            \/ /\ ~Applies(board, premove_black)
               /\ board' = board
               /\ pc' = "black_fb"
        /\ pc = "black_fb" =>
            /\ asked' = Append(asked, << "black_eng", FALLBACK_DEPTH, board.move_stack >>)
            /\ board' = board ]_vars

\* White's move has captured the piece Black's premove meant to move: the
\* premove was not applied and Black's fallback has been asked for.
C3_Witness ==
    /\ pc = "black_fb_push"
    /\ premove_black # None
    /\ Len(board.move_stack) = 1
    /\ board.halfmove_clock = 0
    /\ peek(board)[2] = premove_black[1]
    /\ StartPlacement[premove_black[1]] = "B"
    /\ Last(asked) = << "black_eng", FALLBACK_DEPTH, board.move_stack >>

\* the step is a call of choose_premove
IsQuery == Len(asked') = Len(asked) + 1

\* the protocol step after the query made at position p
AfterQuery(p) ==
    CASE p = "premove_white" -> "premove_black"
      [] p = "premove_black" -> "white_push"
      [] p = "white_fb" -> "white_fb_push"
      [] p = "black_fb" -> "black_fb_push"
      [] OTHER -> "none"

\* the value of the variable that the query made at position p has assigned
Assigned(p) ==
    CASE p = "premove_white" -> premove_white'
      [] p = "premove_black" -> premove_black'
      [] OTHER -> fb'

\* C4: a query in which the engine raises yields the absent move: no exception
\* leaves the match, board and game are as before, and the match is at the
\* next step of the protocol, where an absent move fails Legal-Apply.
C4_QueryFailureIsNoMove ==
    /\ [][ (IsQuery /\ last_play' = "error") =>
            /\ outcome' = "running"
            /\ board' = board
            /\ game' = game
            /\ pc' = AfterQuery(pc)
            /\ Assigned(pc) = None
            /\ ~safe_push(board', Assigned(pc)).ok ]_vars
    /\ [](outcome = "raised" => asked = << >> /\ last_play = "none")

\* Black's fallback query has failed in the second cycle; the match is at
\* the Legal-Apply of the absent fallback.
C4_Witness ==
    /\ pc = "black_fb_push"
    /\ last_play = "error"
    /\ fb = None
    /\ outcome = "running"
    /\ Len(board.move_stack) = 3
    /\ Len(game.moves) = 3

\* C5: at every cycle boundary and at every end of the match the record holds
\* as many moves as were applied to the board.
C5_RecordCountsApplies ==
    (pc \in { "loop", "result", "white_resign", "black_resign" } \/ outcome = "returned")
        => Len(game.moves) = Len(board.move_stack)

\* A cycle in which both premoves failed and both fallbacks were applied
\* has ended: two moves on the board, two in the record.
C5_Witness ==
    /\ pc = "loop"
    /\ Len(asked) = 4
    /\ Len(board.move_stack) = 2
    /\ Len(game.moves) = 2

\* C6: a match that has ended holds at most 2 * MAX_MOVES moves in its record.
C6_RecordWithinCeiling ==
    outcome = "returned" => Len(game.moves) <= 2 * MAX_MOVES

\* A match with MAX_MOVES = 1 has ended with two recorded moves.
C6_Witness ==
    /\ Finished
    /\ MAX_MOVES = 1
    /\ Len(game.moves) = 2

\* C7: when the match has ended and nobody resigned, the Result is
\* board.result(claim_draw=True) of the final board.
C7_ResultIsBoardResult ==
    (outcome = "returned" /\ printed = "") => game.Result = result(board)

\* The ceiling of 3 has stopped, after four moves, a game that was not over:
\* the Result is the board's "*".
C7_Witness ==
    /\ Finished
    /\ printed = ""
    /\ ~is_game_over(board)
    /\ MAX_MOVES = 3
    /\ moves_played = 4
    /\ game.Result = "*"

\* C8: the Result header is assigned at most once, and exactly once in a match
\* that has returned; once assigned it keeps its value.
C8_ResultAssignedOnce ==
    /\ [](result_writes <= 1)
    /\ [](outcome = "returned" <=> result_writes = 1)
    /\ [][result_writes = 1 => game'.Result = game.Result]_vars

\* A match that ended on the board's own result has assigned it once.
C8_Witness ==
    /\ Finished
    /\ printed = ""
    /\ result_writes = 1
    /\ game.Result = "1-0"

\* C9: when premove_match has been left, by return or by exception, no
\* engine that was started is still open.
C9_EnginesReleased ==
    pc = "done" => white_eng # "open" /\ black_eng # "open"

\* The second engine failed to start: the first one has been closed.
C9_Witness ==
    /\ pc = "done"
    /\ outcome = "raised"
    /\ white_eng = "closed"
    /\ black_eng = "unopened"

\* C10: every match ends, and no cycle starts once MAX_MOVES moves have been
\* applied.
C10_MatchTerminates ==
    /\ <>(pc = "done")
    /\ [](pc \in { "premove_white", "premove_black", "white_push", "white_fb",
                   "white_fb_push", "white_resign" }
            => Len(board.move_stack) < MAX_MOVES)

\* The ceiling, and not the board, has ended a match: MAX_MOVES = 3 was
\* reached inside the second cycle, which was the last.
C10_Witness ==
    /\ pc = "done"
    /\ MAX_MOVES = 3
    /\ Len(board.move_stack) = 4
    /\ ~is_game_over(board)
    /\ printed = ""

\* C11: PGN_FILE is written at most once, only when premove_match has
\* returned with its Result assigned, never while the match is running; a
\* match that concluded, whichever way, has its file written once it is saved,
\* and the file holds the game with that Result.
C11_FileWrittenOnceAtEnd ==
    /\ [](file_writes <= 1)
    /\ [][file_writes' # file_writes =>
            /\ pc = "done"
            /\ outcome = "returned"
            /\ result_writes = 1
            /\ pgn_file' = game ]_vars
    /\ [](pc = "saved" => file_writes = 1 /\ pgn_file = game)
    /\ [](pc \notin { "done", "saved" } => file_writes = 0 /\ pgn_file = "absent")
    /\ []((pc = "done" /\ outcome = "returned") => ENABLED SavePGN)

\* The file has been written after Black resigned: it holds three moves and
\* the Result "1-0".
C11_Witness ==
    /\ pc = "saved"
    /\ printed = "Black"
    /\ file_writes = 1
    /\ pgn_file.Result = "1-0"
    /\ Len(pgn_file.moves) = 3

\* C12: Black's turn is reached only when, after White's move, the game is
\* not over and fewer than MAX_MOVES moves have been applied.
C12_CeilingCheckedAfterWhite ==
    pc \in { "black_push", "black_fb", "black_fb_push" } =>
        /\ ~is_game_over(board)
        /\ Len(board.move_stack) < MAX_MOVES
        /\ moves_played < MAX_MOVES

\* the candidate that the safe_push call at position p is given
Candidate(p) == IF p = "white_push" THEN premove_white ELSE fb

\* where the match goes when the safe_push call at position p returns True / False
OnSuccess(p) == IF p = "black_fb_push" THEN "black_record" ELSE "white_record"
OnFailure(p) ==
    CASE p = "white_push" -> "white_fb"
      [] p = "white_fb_push" -> "white_resign"
      [] OTHER -> "black_resign"

\* C13: safe_push on a candidate that is present and legal appends exactly
\* that move to the board and returns True; on an absent or illegal candidate
\* it returns False, raises nothing and leaves the board as it was.
C13_SafePushContract ==
    [][ (pc \in { "white_push", "white_fb_push", "black_fb_push" }) =>
            \/ /\ Candidate(pc) # None
               /\ Candidate(pc) \in legal_moves(board)
               /\ board'.move_stack = Append(board.move_stack, Candidate(pc))
               /\ board'.sq[Candidate(pc)[2]] = board.turn
               /\ board'.sq[Candidate(pc)[1]] = "."
               /\ board'.turn # board.turn
               /\ pc' = OnSuccess(pc)
            \/ /\ (Candidate(pc) = None \/ Candidate(pc) \notin legal_moves(board))
               /\ board' = board
               /\ pc' = OnFailure(pc)
               /\ outcome' = outcome ]_vars

\* safe_push has refused a candidate that is present but illegal, on the
\* second move of the game, and the board is as it was.
C13_Witness ==
    /\ pc = "black_resign"
    /\ fb # None
    /\ fb \notin legal_moves(board)
    /\ Len(board.move_stack) = 1

\* C14: the two premove queries of a cycle are given the same position, and
\* every query is given the board as it is when the query is made: Black's
\* fallback sees the position after White's move of that cycle.
C14_QueriesSeeLiveBoard ==
    /\ [][IsQuery => Last(asked')[3] = board.move_stack /\ board' = board]_vars
    /\ [](Len(asked) >= 2 =>
            /\ asked[1][1] = "white_eng"
            /\ asked[2][1] = "black_eng"
            /\ asked[1][3] = asked[2][3])
    /\ [](\A i \in DOMAIN asked :
            (asked[i][1] = "black_eng" /\ asked[i][2] = FALLBACK_DEPTH) =>
                /\ Len(asked[i][3]) = Len(asked[1][3]) + 1
                /\ SubSeq(asked[i][3], 1, Len(asked[1][3])) = asked[1][3])

\* Both sides fell back in the second cycle: Black's fallback query saw the
\* three moves on the board, the premove queries saw two.
C14_Witness ==
    /\ pc = "black_fb_push"
    /\ Len(asked) = 4
    /\ Len(asked[1][3]) = 2
    /\ asked[2][3] = asked[1][3]
    /\ asked[4][3] = board.move_stack
    /\ Len(asked[4][3]) = 3

\* the board after the moves of a move stack, from the starting position
RECURSIVE Replay(_)
Replay(stack) ==
    IF stack = << >> THEN NewBoard
    ELSE push(Replay(SubSeq(stack, 1, Len(stack) - 1)), stack[Len(stack)])

\* the queries of the current cycle, without the positions
Asked == [ i \in DOMAIN asked |-> << asked[i][1], asked[i][2] >> ]

Premoves == << << "white_eng", PREMOVE_DEPTH >>, << "black_eng", PREMOVE_DEPTH >> >>
WhiteFb == << "white_eng", FALLBACK_DEPTH >>
BlackFb == << "black_eng", FALLBACK_DEPTH >>

\* the board at the start of the current cycle, and after White's move in it
CycleStart == Replay(asked[1][3])
AfterWhite == Replay(SubSeq(board.move_stack, 1, Len(asked[1][3]) + 1))

\* White's, Black's Legal-Apply of the premove has been decided in this cycle,
\* and the fallback query it may lead to has been made
WhiteTried == Len(asked) >= 2 /\ pc \notin { "white_push", "white_fb" }
BlackTried ==
    /\ WhiteTried
    /\ \/ pc \in { "black_fb_push", "black_resign", "black_record" }
       \/ /\ pc \notin { "white_fb_push", "white_resign", "white_record",
                         "black_push", "black_fb" }
          /\ (printed = "Black" \/ Len(board.move_stack) = Len(asked[1][3]) + 2)

\* C15: in a cycle, a side's engine is asked for a fallback exactly when that
\* side's premove failed Legal-Apply; the query goes to that side's engine at
\* FALLBACK_DEPTH, once. When both premoves apply there are two queries, two
\* more moves on the board and in the record, and the match is back at the
\* loop test.
C15_FallbackIffPremoveFails ==
    /\ Asked \in { << >>, SubSeq(Premoves, 1, 1), Premoves,
                   Premoves \o << WhiteFb >>, Premoves \o << BlackFb >>,
                   Premoves \o << WhiteFb, BlackFb >> }
    /\ WhiteTried =>
        ((\E i \in DOMAIN Asked : Asked[i] = WhiteFb) <=> ~Applies(CycleStart, premove_white))
    /\ BlackTried =>
        ((\E i \in DOMAIN Asked : Asked[i] = BlackFb) <=> ~Applies(AfterWhite, premove_black))
    /\ pc = "white_fb" => ~Applies(board, premove_white)
    /\ pc = "black_fb" => ~Applies(board, premove_black)
    /\ (pc = "black_record" /\ Len(asked) = 2) =>
        /\ Len(board.move_stack) = Len(asked[1][3]) + 2
        /\ Len(game.moves) = Len(asked[1][3]) + 1
    /\ (pc = "loop" /\ Len(asked) = 2 /\ printed = "") =>
        /\ Len(board.move_stack) = Len(asked[1][3]) + 2
        /\ game.moves = board.move_stack
        /\ moves_played = Len(asked[1][3]) + 2

\* Both premoves of the first cycle applied: two queries, two moves, and the
\* match is at the loop test with the game not over.
C15_Witness ==
    /\ pc = "loop"
    /\ Len(asked) = 2
    /\ board.move_stack = << premove_white, premove_black >>
    /\ Len(game.moves) = 2
    /\ ~is_game_over(board)

\* C16: the candidate Black tries first is the one its engine returned in
\* this cycle's premove query, made before White moved; Black's engine is not
\* asked again, nor premove_black changed, between that query and the attempt.
C16_BlackTriesThisCyclesPremove ==
    /\ [][ /\ (pc = "premove_black" /\ outcome' = "running") =>
                /\ premove_black' = returned'
                /\ Last(asked') = << "black_eng", PREMOVE_DEPTH, board.move_stack >>
           /\ (pc \in { "white_push", "white_fb", "white_fb_push", "white_record",
                        "black_push" }) =>
                /\ premove_black' = premove_black
                /\ \A i \in DOMAIN asked' : i > 2 => asked'[i][1] # "black_eng"
           /\ (pc = "black_push" /\ board' # board) =>
                board' = push(board, premove_black) ]_vars
    /\ [](pc = "black_push" =>
            /\ Len(asked) \in { 2, 3 }
            /\ asked[2] = << "black_eng", PREMOVE_DEPTH, asked[1][3] >>
            /\ Len(board.move_stack) = Len(asked[2][3]) + 1)

\* In the second cycle Black's premove, another one than in the first cycle,
\* has been applied as returned by this cycle's query.
C16_Witness ==
    /\ pc = "black_record"
    /\ Len(board.move_stack) = 4
    /\ Len(asked) = 2
    /\ peek(board) = premove_black
    /\ premove_black # board.move_stack[2]

IsPrefix(a, b) == Len(a) <= Len(b) /\ SubSeq(b, 1, Len(a)) = a

\* C17: the board's move stack only grows, by appending; the record, when it
\* is extended, gets the move last applied to the board, and it is at all
\* times a prefix of the board's move stack.
C17_NeverRolledBack ==
    /\ [][ /\ IsPrefix(board.move_stack, board'.move_stack)
           /\ Len(board'.move_stack) <= Len(board.move_stack) + 1
           /\ board' = Replay(board'.move_stack)
           /\ game'.moves # game.moves =>
                game'.moves = Append(game.moves, peek(board')) ]_vars
    /\ [](IsPrefix(game.moves, board.move_stack))

\* Black's fallback has been applied on top of three earlier moves and is
\* not yet in the record, which holds those three.
C17_Witness ==
    /\ pc = "black_record"
    /\ Len(board.move_stack) = 4
    /\ game.moves = SubSeq(board.move_stack, 1, 3)
    /\ peek(board) = fb
    /\ peek(board) # premove_black

\* Black's premove of this cycle is what an engine playing by the rules can
\* return: no move, or a move legal in the position it was asked about
RuleAbidingPremove == premove_black = None \/ premove_black \in legal_moves(CycleStart)

\* C18: a premove of Black that is legal in the position of its query, where
\* White is to move, or absent, is never applied: Black's fallback is asked,
\* and the move Black plays is the fallback's.
C18_HonestPremoveNeverApplied ==
    /\ [][ (pc = "black_push" /\ RuleAbidingPremove) =>
            /\ board' = board
            /\ pc' = "black_fb" ]_vars
    /\ []((pc = "black_record" /\ RuleAbidingPremove) =>
            /\ peek(board) = fb
            /\ Asked[Len(Asked)] = BlackFb)

\* Black's engine returned, as premove, a move legal for White; Black has
\* then played its fallback.
C18_Witness ==
    /\ pc = "black_record"
    /\ premove_black # None
    /\ premove_black \in legal_moves(CycleStart)
    /\ CycleStart.turn = "W"
    /\ peek(board) = fb
    /\ Len(board.move_stack) = 4

\* C19: every Legal-Apply attempt and every resignation happens on a board
\* that is not game-over, on which the side to move has a legal move; the
\* side that resigned is the side to move.
C19_ResignOnlyWhenNotOver ==
    /\ pc \in { "white_push", "white_fb", "white_fb_push", "white_resign",
                "black_push", "black_fb", "black_fb_push", "black_resign" } =>
            /\ ~is_game_over(board)
            /\ legal_moves(board) # {}
    /\ printed # "" =>
            /\ ~is_game_over(board)
            /\ legal_moves(board) # {}
            /\ board.turn = (IF printed = "White" THEN "W" ELSE "B")

\* White has resigned in the third cycle although it had a legal move.
C19_Witness ==
    /\ pc = "saved"
    /\ printed = "White"
    /\ Len(board.move_stack) = 4
    /\ legal_moves(board) # {}
    /\ game.Result = "0-1"

SideOfPly(k) == IF k % 2 = 1 THEN "W" ELSE "B"

\* C20: the moves applied alternate White, Black, White, ...; a cycle starts
\* with an even number of moves and White to move; after White's resignation
\* the record holds an even number of moves, after Black's an odd number.
C20_MovesAlternate ==
    /\ pc \in { "loop", "premove_white", "premove_black", "white_push", "white_fb",
                "white_fb_push", "white_resign" } =>
            /\ Len(board.move_stack) % 2 = 0
            /\ board.turn = "W"
    /\ \A k \in DOMAIN board.move_stack :
            LET b == Replay(SubSeq(board.move_stack, 1, k - 1)) IN
            /\ b.turn = SideOfPly(k)
            /\ b.sq[board.move_stack[k][1]] = SideOfPly(k)
    /\ printed = "White" => Len(game.moves) % 2 = 0
    /\ printed = "Black" => Len(game.moves) % 2 = 1

\* Black has resigned with three moves in the record.
C20_Witness ==
    /\ pc = "saved"
    /\ printed = "Black"
    /\ Len(game.moves) = 3
    /\ board.turn = "B"

====
